---------------------------- MODULE Spec2Model ----------------------------
(***************************************************************************)
(* A state-machine model of the P&P Pizza "Social Content AI" front end    *)
(* (App.tsx, components/InputSection.tsx and its older variant), of the    *)
(* direct-call generation client (services/geminiService.ts), of the       *)
(* proxied client (services/apiService.ts) and of the serverless proxy     *)
(* (api/generate.ts).                                                      *)
(*                                                                         *)
(* Strings are modelled as sequences of tokens; a token stands for a run   *)
(* of characters that no operation of the program cuts in two.  The comma  *)
(* "," , the slash "/" and the blank " " are tokens of their own because   *)
(* split(','), startsWith('image/') and trim() look at them.  JavaScript   *)
(* null is the empty sequence Null and a present value x is <<x>>.         *)
(***************************************************************************)
EXTENDS Integers, Sequences, FiniteSets, TLC

VARIABLES
    variant,        \* which InputSection is mounted: "current" or "older"
    hasApiKey,      \* App.tsx: process.env.API_KEY is set in the browser bundle
    idea,           \* App.tsx useState idea
    uploadedMedia,  \* App.tsx useState uploadedMedia
    posts,          \* App.tsx useState posts
    isLoading,      \* App.tsx useState isLoading
    error,          \* App.tsx useState error
    ai,             \* geminiService.ts: the lazily created client singleton
    isRecording,    \* InputSection useState isRecording
    speechError,    \* InputSection useState speechError
    errorTimer,     \* the value the pending 5 s timer of the speechError effect was armed for
    recognitionRef, \* InputSection useRef recognitionRef
    sessions,       \* the SpeechRecognition objects created so far (browser side)
    reads,          \* file reads / image decodes in flight (FileReader, Image)
    alertMsg,       \* the alert() raised by the handler that ran last
    gens,           \* generation cycles in flight (handleGenerate awaiting)
    requests,       \* the provider calls issued since the last generate click
    pasted,         \* the clipboard items of the paste event handled last
    processed,      \* the argument of the processFile call of the handler that ran last
    encoded         \* the canvas and the encoding compressImage resolved with, when the
                    \* handler that ran last was its img.onload

vars == <<variant, hasApiKey, idea, uploadedMedia, posts, isLoading, error, ai,
          isRecording, speechError, errorTimer, recognitionRef, sessions, reads, alertMsg,
          gens, requests, pasted, processed, encoded>>

genVars   == <<gens, requests>>

appVars   == <<idea, uploadedMedia, posts, isLoading, error, ai>>
voiceVars == <<isRecording, speechError, errorTimer, recognitionRef, sessions>>
envVars   == <<variant, hasApiKey>>

-----------------------------------------------------------------------------
(* Bounds of the model *)

\* file reads and image decodes that may be in flight at once
MaxReads == 2
\* items of one clipboard (paste) event, files of one drop event
MaxItems == 2
\* SpeechRecognition objects created in one run
MaxSessions == 2

-----------------------------------------------------------------------------
(* Strings *)

Null == <<>>
Some(x) == <<x>>

StartsWith(s, p) == Len(s) >= Len(p) /\ SubSeq(s, 1, Len(p)) = p

\* String.prototype.split(sep) for a one-token separator: the pieces between
\* the separators, in order (always at least one piece)
RECURSIVE Split(_, _)
Split(s, sep) ==
    IF \A i \in 1..Len(s) : s[i] # sep
    THEN <<s>>
    ELSE LET k == CHOOSE i \in 1..Len(s) : s[i] = sep /\ \A j \in 1..(i-1) : s[j] # sep
         IN  <<SubSeq(s, 1, k-1)>> \o Split(SubSeq(s, k+1, Len(s)), sep)

\* JavaScript's array[i] with a 0-based index; "undefined" when out of range,
\* which a template string or a property read renders as that word
Undefined == <<"undefined">>
At(arr, i) == IF i + 1 <= Len(arr) THEN arr[i + 1] ELSE Undefined

\* String.prototype.trim(): leading and trailing white space removed
RECURSIVE TrimLeft(_)
TrimLeft(s) == IF Len(s) > 0 /\ s[1] = " " THEN TrimLeft(Tail(s)) ELSE s
RECURSIVE TrimRight(_)
TrimRight(s) == IF Len(s) > 0 /\ s[Len(s)] = " " THEN TrimRight(SubSeq(s, 1, Len(s)-1)) ELSE s
Trim(s) == TrimRight(TrimLeft(s))

\* `data:${mimeType};base64,${base64}` and FileReader.readAsDataURL's result
DataURL(mimeType, base64) == <<"data:">> \o mimeType \o <<";base64", ",">> \o base64

Mime(major, sub) == <<major, "/", sub>>

-----------------------------------------------------------------------------
(* Files the user can hand to the application *)

MB == 1024 * 1024

\* the size ceiling of processFile
MaxFileSize == IF variant = "current" THEN 100 * MB ELSE 20 * MB

\* the acceptedTypes of processFile
acceptedTypes ==
    IF variant = "current"
    THEN { Mime("image", "png"), Mime("image", "jpeg"), Mime("image", "webp"),
           Mime("image", "heic"), Mime("image", "heif"),
           Mime("video", "mp4"), Mime("video", "webm") }
    ELSE { Mime("image", "png"), Mime("image", "jpeg"), Mime("image", "webp"),
           Mime("video", "mp4"), Mime("video", "webm") }

FileSizes == { 1024, 20 * MB + 1, 100 * MB + 1 }
FileTypes == { Mime("image", "png"), Mime("image", "gif"), Mime("video", "mp4") }

\* a File: its size, its type and (a token for) its bytes in base64
Files ==
    [size : FileSizes, type : FileTypes, data : {"AAAA"}]
      \cup [size : {1024}, type : {Mime("image", "png"), Mime("image", "heic")}, data : {"BBBB"}]
      \cup [size : {20 * MB}, type : {Mime("image", "png")}, data : {"BBBB"}]

\* the files that appear in clipboard and drop lists of more than one entry
ItemFiles ==
    { [size |-> 1024, type |-> Mime("image", "png"), data |-> "AAAA"],
      [size |-> 1024, type |-> Mime("image", "gif"), data |-> "AAAA"],
      [size |-> 100 * MB + 1, type |-> Mime("image", "png"), data |-> "AAAA"],
      [size |-> 1024, type |-> Mime("video", "mp4"), data |-> "AAAA"] }

\* DataTransferItem of a paste event: kind, type and what getAsFile() returns
ClipboardItems ==
    { [kind |-> "file", type |-> f.type, file |-> Some(f)] :
        f \in { x \in ItemFiles : StartsWith(x.type, <<"image", "/">>) } }
      \cup { [kind |-> "file", type |-> Mime("image", "png"), file |-> Null],
             [kind |-> "string", type |-> Mime("text", "plain"), file |-> Null] }

ListsOf(S) == UNION { [1..n -> S] : n \in 0..MaxItems }

-----------------------------------------------------------------------------
(* Media preparation: components/InputSection.tsx and its older variant *)

RemoveAt(s, i) == SubSeq(s, 1, i-1) \o SubSeq(s, i+1, Len(s))

TooLargeMsg ==
    <<"File is too large. Please select a file under ",
      IF variant = "current" THEN "100MB" ELSE "20MB", ".">>
UnsupportedMsg(type) ==
    <<"Unsupported file type: ">> \o type \o
    <<IF variant = "current" THEN ". Please use PNG, JPG, WEBP, HEIC, MP4, or WEBM."
                             ELSE ". Please use PNG, JPG, WEBP, MP4, or WEBM.">>
FailedImageMsg == <<"Failed to process image. Please try a different file.">>

MAX_DIMENSION == 2048
\* TARGET_SIZE_MB * 1024 * 1024 * 1.37 = 14365491.2: a length exceeds it
\* exactly when it exceeds 14365491
TargetLength == 14365491

\* A JavaScript number (IEEE-754 double) near a multiple of 0.1, written
\* <<t, e>> for t/10 + e * 10^-17.  Subtracting 0.1 from 0.9 five times gives
\* 0.8, 0.7000000000000001, 0.6000000000000001, 0.5000000000000001 and
\* 0.40000000000000013.
InitialQuality == <<9, 0>>
\* faulty variant of QualityFloor: the loop has no floor
QualityFloorNone == <<0, 0>>
QualityFloor == <<5, 0>>
MinusTenth(q) ==
    CASE q = <<9, 0>>  -> <<8, 0>>
      [] q = <<8, 0>>  -> <<7, 10>>
      [] q = <<7, 10>> -> <<6, 10>>
      [] q = <<6, 10>> -> <<5, 10>>
      [] q = <<5, 10>> -> <<4, 13>>
      [] OTHER         -> <<q[1] - 1, q[2]>>
Greater(q, r) == q[1] > r[1] \/ (q[1] = r[1] /\ q[2] > r[2])

\* canvas.toDataURL('image/jpeg', quality) of the image with bytes `data`: a
\* data URL whose payload stands for the re-encoded image.  `over` is the
\* number of successive encodings (from the first) longer than the target.
JpegPayload(data) == <<"jpeg-of", data>>
toDataURL(data, quality) == DataURL(Mime("image", "jpeg"), JpegPayload(data))
EncodedLength(step, over) == IF step < over THEN TargetLength + 1 ELSE TargetLength

\* the while loop of compressImage, from the state (quality, step)
RECURSIVE ReduceQuality(_, _, _)
ReduceQuality(quality, step, over) ==
    IF EncodedLength(step, over) > TargetLength /\ Greater(quality, QualityFloor)
    THEN ReduceQuality(MinusTenth(quality), step + 1, over)
    ELSE [quality |-> quality, steps |-> step]

\* faulty variant of ResizedWidth: the width is capped, never scaled
ResizedWidthCapped(width, height) == IF width > MAX_DIMENSION THEN MAX_DIMENSION ELSE width

\* the resize of compressImage; canvas.width and canvas.height keep the
\* integer part of the number assigned
ResizedWidth(width, height) ==
    IF width > MAX_DIMENSION \/ height > MAX_DIMENSION
    THEN IF width > height THEN MAX_DIMENSION ELSE (width * MAX_DIMENSION) \div height
    ELSE width
ResizedHeight(width, height) ==
    IF width > MAX_DIMENSION \/ height > MAX_DIMENSION
    THEN IF width > height THEN (height * MAX_DIMENSION) \div width ELSE MAX_DIMENSION
    ELSE height

\* what img.onload of compressImage resolves with
compressImage(data, width, height, over) ==
    LET q == ReduceQuality(InitialQuality, 0, over)
    IN  [ base64   |-> At(Split(toDataURL(data, q.quality), ","), 1),
          mimeType |-> Mime("image", "jpeg"),
          quality  |-> q.quality,
          steps    |-> q.steps,
          width    |-> ResizedWidth(width, height),
          height   |-> ResizedHeight(width, height) ]

\* the decoded sizes of the images and the encoder outcomes the model draws
ImageDims == { <<800, 600>>, <<4096, 1024>>, <<1000, 3000>>, <<3000, 3000>> }
MaxOver == 6

\* the read processFile starts for an accepted file
NewRead(f) ==
    [ path  |-> IF variant = "current" /\ StartsWith(f.type, <<"image", "/">>)
                THEN "compress" ELSE "raw",
      stage |-> "read",
      type  |-> f.type,
      data  |-> f.data,
      overtaken |-> FALSE ]

\* the reads left when read i completes.  A read submitted before i and still
\* in flight is marked overtaken when i has delivered its media: a note for
\* the properties, which no action looks at.
Completed(i, delivered) ==
    RemoveAt([j \in 1..Len(reads) |->
                IF delivered /\ j < i THEN [reads[j] EXCEPT !.overtaken = TRUE] ELSE reads[j]], i)

\* faulty variant of processFile: the size ceiling is not looked at
processFileNoCeiling(file) ==
    /\ processed' = file /\ encoded' = Null
    /\ IF file = Null
       THEN /\ reads' = reads
            /\ alertMsg' = Null
       ELSE LET f == file[1] IN
         IF f.type \notin acceptedTypes
         THEN /\ alertMsg' = Some(UnsupportedMsg(f.type))
              /\ reads' = reads
         ELSE /\ alertMsg' = Null
              /\ reads' = Append(reads, NewRead(f))

\* faulty variant of processFile: every image/... and video/... type passes
processFileAnyMedia(file) ==
    /\ processed' = file /\ encoded' = Null
    /\ IF file = Null
       THEN /\ reads' = reads
            /\ alertMsg' = Null
       ELSE LET f == file[1] IN
         IF f.size > MaxFileSize
         THEN /\ alertMsg' = Some(TooLargeMsg)
              /\ reads' = reads
         ELSE IF ~(StartsWith(f.type, <<"image", "/">>) \/ StartsWith(f.type, <<"video", "/">>))
         THEN /\ alertMsg' = Some(UnsupportedMsg(f.type))
              /\ reads' = reads
         ELSE /\ alertMsg' = Null
              /\ reads' = Append(reads, NewRead(f))

\* processFile(file), up to the point where it returns to its caller: the
\* validation, and the start of the asynchronous read
processFile(file) ==
    /\ processed' = file /\ encoded' = Null
    /\ IF file = Null
       THEN /\ reads' = reads
            /\ alertMsg' = Null
       ELSE LET f == file[1] IN
         IF f.size > MaxFileSize
         THEN /\ alertMsg' = Some(TooLargeMsg)
              /\ reads' = reads
         ELSE IF f.type \notin acceptedTypes
         THEN /\ alertMsg' = Some(UnsupportedMsg(f.type))
              /\ reads' = reads
         ELSE /\ alertMsg' = Null
              /\ reads' = Append(reads, NewRead(f))

\* <input type="file" onChange>: rendered while no media is shown, disabled
\* while loading
handleMediaUpload(file) ==
    /\ ~isLoading
    /\ uploadedMedia = Null
    /\ Len(reads) < MaxReads
    /\ processFile(file)
    /\ pasted' = Null
    /\ UNCHANGED <<appVars, voiceVars, envVars, genVars>>

removeMedia ==
    /\ ~isLoading
    /\ uploadedMedia # Null
    /\ uploadedMedia' = Null
    /\ alertMsg' = Null /\ pasted' = Null /\ processed' = Null /\ encoded' = Null
    /\ UNCHANGED <<idea, posts, isLoading, error, ai, voiceVars, envVars, reads, genVars>>

\* the items of a clipboard that are images: kind 'file', type 'image/...'
ImageItems(items) ==
    { i \in 1..Len(items) : items[i].kind = "file" /\ StartsWith(items[i].type, <<"image", "/">>) }

\* faulty variant of FirstImageFile: the last image item with a file is taken
LastImageFile(items) ==
    LET hits == { i \in 1..Len(items) :
                    /\ items[i].kind = "file"
                    /\ StartsWith(items[i].type, <<"image", "/">>)
                    /\ items[i].file # Null }
    IN  IF hits = {} THEN 0 ELSE CHOOSE i \in hits : \A j \in hits : i >= j

\* the index of the item handlePaste passes to processFile, 0 when its loop
\* ends without finding one
FirstImageFile(items) ==
    LET hits == { i \in 1..Len(items) :
                    /\ items[i].kind = "file"
                    /\ StartsWith(items[i].type, <<"image", "/">>)
                    /\ items[i].file # Null }
    IN  IF hits = {} THEN 0 ELSE CHOOSE i \in hits : \A j \in hits : i <= j

\* the window 'paste' listener (event.clipboardData present)
handlePaste(items) ==
    /\ Len(reads) < MaxReads
    /\ IF isLoading \/ FirstImageFile(items) = 0
       THEN /\ reads' = reads
            /\ alertMsg' = Null
            /\ processed' = Null /\ encoded' = Null
       ELSE processFile(items[FirstImageFile(items)].file)
    /\ pasted' = Some(items)
    /\ UNCHANGED <<appVars, voiceVars, envVars, genVars>>

\* faulty variant of handleDrop: a dropped file skips the size ceiling
handleDropNoCeiling(files) ==
    /\ uploadedMedia = Null
    /\ Len(reads) < MaxReads
    /\ IF isLoading \/ Len(files) = 0
       THEN /\ reads' = reads
            /\ alertMsg' = Null
            /\ processed' = Null /\ encoded' = Null
       ELSE processFileNoCeiling(Some(files[1]))
    /\ pasted' = Null
    /\ UNCHANGED <<appVars, voiceVars, envVars, genVars>>

\* onDrop of the upload label, which is rendered while no media is shown
handleDrop(files) ==
    /\ uploadedMedia = Null
    /\ Len(reads) < MaxReads
    /\ IF isLoading \/ Len(files) = 0
       THEN /\ reads' = reads
            /\ alertMsg' = Null
            /\ processed' = Null /\ encoded' = Null
       ELSE processFile(Some(files[1]))
    /\ pasted' = Null
    /\ UNCHANGED <<appVars, voiceVars, envVars, genVars>>

\* compressImage: reader.onload sets img.src, the decode starts
readerOnload(i) ==
    /\ i \in 1..Len(reads)
    /\ reads[i].path = "compress" /\ reads[i].stage = "read"
    /\ reads' = [reads EXCEPT ![i].stage = "decode"]
    /\ alertMsg' = Null /\ pasted' = Null /\ processed' = Null /\ encoded' = Null
    /\ UNCHANGED <<appVars, voiceVars, envVars, genVars>>

\* compressImage: reader.onerror or img.onerror rejects, processFile's catch alerts
compressRejected(i) ==
    /\ i \in 1..Len(reads)
    /\ reads[i].path = "compress"
    /\ reads' = RemoveAt(reads, i)
    /\ alertMsg' = Some(FailedImageMsg) /\ pasted' = Null /\ processed' = Null /\ encoded' = Null
    /\ UNCHANGED <<appVars, voiceVars, envVars, genVars>>

\* compressImage: img.onload; without a 2d context it rejects, otherwise it
\* resolves and processFile continues with setUploadedMedia(compressed)
imgOnload(i, hasCtx, dims, over) ==
    /\ i \in 1..Len(reads)
    /\ reads[i].path = "compress" /\ reads[i].stage = "decode"
    /\ reads' = Completed(i, hasCtx)
    /\ pasted' = Null /\ processed' = Null
    /\ IF hasCtx
       THEN LET c == compressImage(reads[i].data, dims[1], dims[2], over)
            IN  /\ uploadedMedia' = Some([base64 |-> c.base64, mimeType |-> c.mimeType])
                /\ alertMsg' = Null
                /\ encoded' = Some([img |-> [width |-> dims[1], height |-> dims[2]],
                                    over |-> over,
                                    canvas |-> [width |-> c.width, height |-> c.height],
                                    quality |-> c.quality, steps |-> c.steps,
                                    length |-> EncodedLength(c.steps, over)])
       ELSE /\ uploadedMedia' = uploadedMedia
            /\ alertMsg' = Some(FailedImageMsg)
            /\ encoded' = Null
    /\ UNCHANGED <<idea, posts, isLoading, error, ai, voiceVars, envVars, genVars>>

\* faulty variant of rawMedia: the data URL is stored whole
rawMediaWhole(type, data) ==
    [base64 |-> DataURL(type, <<data>>), mimeType |-> type]

\* what reader.onloadend passes to setUploadedMedia after a successful read
rawMedia(type, data) ==
    LET base64String == DataURL(type, <<data>>)
    IN  [base64 |-> At(Split(base64String, ","), 1), mimeType |-> type]

\* the video branch, and all of the older processFile: reader.onloadend.  On a
\* failed read reader.result is null and the callback throws before it
\* reaches setUploadedMedia.
readerOnloadend(i, ok) ==
    /\ i \in 1..Len(reads)
    /\ reads[i].path = "raw"
    /\ reads' = Completed(i, ok)
    /\ alertMsg' = Null /\ pasted' = Null /\ processed' = Null /\ encoded' = Null
    /\ IF ok
       THEN uploadedMedia' = Some(rawMedia(reads[i].type, reads[i].data))
       ELSE uploadedMedia' = uploadedMedia
    /\ UNCHANGED <<idea, posts, isLoading, error, ai, voiceVars, envVars, genVars>>

-----------------------------------------------------------------------------
(* Voice capture: handleToggleRecording and the recognition callbacks *)

OfflineMsg == "You appear to be offline. Please check your internet connection."
UnsupportedSpeechMsg == "Speech recognition is not supported in your browser."
CouldNotStartMsg == "Could not start microphone. It may be in use by another app."

SpeechErrors == { "network", "no-speech", "not-allowed", "service-not-allowed", "aborted" }

\* the switch of recognition.onerror
SpeechErrorMessage(err) ==
    CASE err = "network" -> "Network error. Please check your connection and try again."
      [] err = "no-speech" -> "No speech was detected. Please try again."
      [] err \in {"not-allowed", "service-not-allowed"} ->
            "Microphone access denied. Please allow access in your browser settings."
      [] OTHER -> "An error occurred during speech recognition. Please try again."

\* faulty variant of speechErrorEffect: the effect returns no cleanup, a
\* pending timer stays armed when the value changes
speechErrorEffectNoCleanup ==
    errorTimer' = IF speechError' = speechError THEN errorTimer
                  ELSE IF errorTimer # Null THEN errorTimer
                  ELSE speechError'

\* useEffect(..., [speechError]) after a render: when the value has changed
\* the cleanup clears the pending timer, and a timer is armed if the new
\* value is a message
speechErrorEffect ==
    errorTimer' = IF speechError' = speechError THEN errorTimer ELSE speechError'

\* recognitionRef.current?.stop(): the browser is asked to end that session
stopCurrent ==
    IF recognitionRef # Null /\ sessions[recognitionRef[1]].phase \in {"starting", "listening"}
    THEN [sessions EXCEPT ![recognitionRef[1]].stopped = TRUE]
    ELSE sessions

\* handleToggleRecording.  online is navigator.onLine, impl says whether
\* window.SpeechRecognition exists, outcome says how far the try block gets:
\* "ctorThrows" (new throws), "startThrows" (start() throws) or "started".
handleToggleRecording(online, impl, outcome) ==
    IF isRecording
    THEN /\ sessions' = stopCurrent
         /\ UNCHANGED <<isRecording, speechError, recognitionRef>>
    ELSE IF ~online
    THEN /\ speechError' = Some(OfflineMsg)
         /\ UNCHANGED <<isRecording, recognitionRef, sessions>>
    ELSE IF ~impl
    THEN /\ speechError' = Some(UnsupportedSpeechMsg)
         /\ UNCHANGED <<isRecording, recognitionRef, sessions>>
    ELSE IF outcome = "ctorThrows"
    THEN /\ speechError' = Some(CouldNotStartMsg)
         /\ isRecording' = FALSE
         /\ UNCHANGED <<recognitionRef, sessions>>
    ELSE /\ sessions' = Append(sessions,
                [ phase   |-> IF outcome = "started" THEN "starting" ELSE "inert",
                  stopped |-> FALSE ])
         /\ recognitionRef' = Some(Len(sessions) + 1)
         /\ speechError' = IF outcome = "started" THEN Null ELSE Some(CouldNotStartMsg)
         /\ isRecording' = FALSE

\* a click on the microphone button: rendered when speech recognition is
\* supported, disabled while loading
ToggleRecording(online, outcome) ==
    /\ ~isLoading
    /\ isRecording \/ Len(sessions) < MaxSessions
    /\ handleToggleRecording(online, TRUE, outcome)
    /\ speechErrorEffect
    /\ alertMsg' = Null /\ pasted' = Null /\ processed' = Null /\ encoded' = Null
    /\ UNCHANGED <<appVars, envVars, reads, genVars>>

\* recognition.onstart of session s
onstart(s) ==
    /\ s \in 1..Len(sessions)
    /\ sessions[s].phase = "starting"
    /\ sessions' = [sessions EXCEPT ![s].phase = "listening"]
    /\ isRecording' = TRUE
    /\ alertMsg' = Null /\ pasted' = Null /\ processed' = Null /\ encoded' = Null
    /\ UNCHANGED <<appVars, envVars, speechError, errorTimer, recognitionRef, reads, genVars>>

\* faulty variant of appendTranscript: the transcript replaces the idea
appendTranscriptReplaces(prevIdea, transcript) == transcript

\* the functional update of recognition.onresult
appendTranscript(prevIdea, transcript) ==
    IF prevIdea # <<>> THEN Trim(Trim(prevIdea) \o <<" ">> \o transcript) ELSE transcript

\* recognition.onresult of session s (one final result: continuous = false)
onresult(s, transcript) ==
    /\ s \in 1..Len(sessions)
    /\ sessions[s].phase = "listening"
    /\ sessions' = [sessions EXCEPT ![s].phase = "closing"]
    /\ idea' = appendTranscript(idea, transcript)
    /\ speechError' = Null
    /\ speechErrorEffect
    /\ alertMsg' = Null /\ pasted' = Null /\ processed' = Null /\ encoded' = Null
    /\ UNCHANGED <<uploadedMedia, posts, isLoading, error, ai, envVars,
                   isRecording, recognitionRef, reads, genVars>>

\* recognition.onerror of session s
onerror(s, err) ==
    /\ s \in 1..Len(sessions)
    /\ sessions[s].phase \in {"starting", "listening"}
    /\ sessions' = [sessions EXCEPT ![s].phase = "closing"]
    /\ speechError' = Some(SpeechErrorMessage(err))
    /\ speechErrorEffect
    /\ alertMsg' = Null /\ pasted' = Null /\ processed' = Null /\ encoded' = Null
    /\ UNCHANGED <<appVars, envVars, isRecording, recognitionRef, reads, genVars>>

\* faulty variant of onend: the recording flag is not reset
onendKeepsRecording(s) ==
    /\ s \in 1..Len(sessions)
    /\ \/ sessions[s].phase \in {"listening", "closing"}
       \/ sessions[s].phase = "starting" /\ sessions[s].stopped
    /\ sessions' = [sessions EXCEPT ![s].phase = "ended"]
    /\ isRecording' = isRecording
    /\ recognitionRef' = Null
    /\ alertMsg' = Null /\ pasted' = Null /\ processed' = Null /\ encoded' = Null
    /\ UNCHANGED <<appVars, envVars, speechError, errorTimer, reads, genVars>>

\* recognition.onend of session s: after its result or error, after stop(),
\* or when the browser ends the listening by itself
onend(s) ==
    /\ s \in 1..Len(sessions)
    /\ \/ sessions[s].phase \in {"listening", "closing"}
       \/ sessions[s].phase = "starting" /\ sessions[s].stopped
    /\ sessions' = [sessions EXCEPT ![s].phase = "ended"]
    /\ isRecording' = FALSE
    /\ recognitionRef' = Null
    /\ alertMsg' = Null /\ pasted' = Null /\ processed' = Null /\ encoded' = Null
    /\ UNCHANGED <<appVars, envVars, speechError, errorTimer, reads, genVars>>

\* the pending timer of the speechError effect fires: setSpeechError(null);
\* the effect then runs for null and arms nothing
speechErrorTimeout ==
    /\ errorTimer # Null
    /\ speechError' = Null
    /\ errorTimer' = Null
    /\ alertMsg' = Null /\ pasted' = Null /\ processed' = Null /\ encoded' = Null
    /\ UNCHANGED <<appVars, envVars, isRecording, recognitionRef, sessions, reads, genVars>>

TypedIdeas == { <<>>, <<" ">>, <<"pizza">> }
Transcripts == { <<"special">>, <<"special", " ">> }

\* onChange of the idea textarea, disabled while loading
handleIdeaChange(value) ==
    /\ ~isLoading
    /\ speechError' = Null
    /\ speechErrorEffect
    /\ idea' = value
    /\ alertMsg' = Null /\ pasted' = Null /\ processed' = Null /\ encoded' = Null
    /\ UNCHANGED <<uploadedMedia, posts, isLoading, error, ai, envVars,
                   isRecording, recognitionRef, sessions, reads, genVars>>

-----------------------------------------------------------------------------
(* Generation: services/geminiService.ts, services/apiService.ts, *)
(* api/generate.ts and handleGenerate of App.tsx                   *)

\* Object.values(PLATFORMS), in both files
PLATFORMS == <<"LinkedIn", "Facebook", "Twitter", "Instagram">>

\* PLATFORM_ASPECT_RATIOS of constants.ts (direct) and of api/generate.ts (proxy)
PLATFORM_ASPECT_RATIOS(mode) ==
    IF mode = "direct" THEN <<"4:3", "1:1", "16:9", "1:1">>
                       ELSE <<"1:1", "1:1", "16:9", "1:1">>

\* faulty variant of mediaTypeOf: uploaded media is always tagged an image
mediaTypeImage(media) == IF media = Null THEN Null ELSE Some("image")

\* uploadedMedia ? (mimeType.startsWith('video') ? 'video' : 'image') : null
mediaTypeOf(media) ==
    IF media = Null THEN Null
    ELSE IF StartsWith(media[1].mimeType, <<"video">>) THEN Some("video") ELSE Some("image")

\* buildPrompt of the two files; they differ in the blank line before "Idea:"
buildPrompt(mode, ideaText, mediaType) ==
    <<"You are the social media manager for P&P Pizza ...">>
    \o (IF mediaType # Null
        THEN <<"A user-provided ", mediaType[1], " is included ...">> ELSE <<>>)
    \o <<IF mode = "direct" THEN "\n    \n    Idea: \"" ELSE "\n\n    Idea: \"">>
    \o ideaText \o <<"\"\n    ">>
    \o <<"Adhere to the P&P Pizza brand voice guidelines strictly: ...">>
    \o (IF mediaType # Null
        THEN <<"For the 'image_prompt' field for Instagram, just return a description of the provided ",
               mediaType[1], ".">>
        ELSE <<"For Instagram, create a compelling image generation prompt ...">>)
    \o <<"Provide the output in the requested JSON format.">>

\* A provider call as the log `requests` keeps it: the request, and once the
\* call has settled its outcome ("json", "malformed", "rejected" for the text
\* call; "ok", "empty", "rejected" for an image call) and what it returned.
\* The text call is entry 1, the image call of platform i is entry 1 + i.
\* The request of the text call: the prompt part, preceded by the inline media
textRequest(mode, ideaText, media) ==
    [ api    |-> "generateContent",
      prompt |-> buildPrompt(mode, ideaText, mediaTypeOf(media)),
      inline |-> IF media = Null THEN Null
                 ELSE Some([mimeType |-> media[1].mimeType, data |-> media[1].base64]),
      aspectRatio |-> "",
      outcome |-> "pending", result |-> Null ]

imageRequest(mode, imagePrompt, i) ==
    [ api    |-> "generateImages",
      prompt |-> imagePrompt,
      inline |-> Null,
      aspectRatio |-> PLATFORM_ASPECT_RATIOS(mode)[i],
      numberOfImages |-> 1,
      outcome |-> "pending", result |-> Null ]

\* faulty variant of imagePromises: one call only, for Instagram
imagePromisesInstagramOnly(mode, imagePrompt) == <<imageRequest(mode, imagePrompt, 4)>>

\* PLATFORMS.map(platform => ai.models.generateImages({...})): one call per
\* platform, in the order of PLATFORMS, all with the same prompt
imagePromises(mode, imagePrompt) == [i \in 1..4 |-> imageRequest(mode, imagePrompt, i)]

\* What the text call can settle with: a rejection, a text that JSON.parse
\* refuses, or a text that parses to one of these objects.  A missing
\* property reads as Undefined; instagram is Null when the property is missing.
Instagram(tags, prompt) ==
    Some([caption |-> <<"instagram caption">>, hashtags |-> tags, image_prompt |-> prompt])
TextDatas ==
    { [ linkedin |-> <<"linkedin post">>, facebook |-> <<"facebook post">>,
        twitter |-> <<"tweet">>,
        instagram |-> Instagram(<<"pizza", "natick", "family">>, <<"a pizza on a table">>) ],
      [ linkedin |-> <<"linkedin post">>, facebook |-> <<"facebook post">>,
        twitter |-> <<"tweet">>,
        instagram |-> Instagram(<<>>, <<>>) ],
      [ linkedin |-> Undefined, facebook |-> <<"facebook post">>,
        twitter |-> <<"tweet">>,
        instagram |-> Instagram(<<"pizza", "natick", "family">>, <<"a pizza on a table">>) ],
      [ linkedin |-> <<"linkedin post">>, facebook |-> <<"facebook post">>,
        twitter |-> <<"tweet">>,
        instagram |-> Null ] }
TextOutcomes ==
    { [kind |-> "rejected", message |-> <<"quota exceeded">>, data |-> Null],
      [kind |-> "malformed", message |-> <<"Unexpected token in JSON">>, data |-> Null] }
      \cup { [kind |-> "json", message |-> <<>>, data |-> Some(d)] : d \in TextDatas }

\* the imageBytes the i-th generateImages call returns, when it returns any
ImageOfCall(i) == <<"image-bytes-of-call-1", "image-bytes-of-call-2",
                    "image-bytes-of-call-3", "image-bytes-of-call-4">>[i]

Failure(message) == [ok |-> FALSE, posts |-> Null, message |-> message]
Success(finalPosts) == [ok |-> TRUE, posts |-> Some(finalPosts), message |-> <<>>]

\* Step 3 of generateSocialPosts and of the handler: finalPosts from textData
\* and mediaData (a 4-tuple of {url, type}); reading instagram.caption throws
\* when instagram is missing
combine(textData, mediaData) ==
    IF textData.instagram = Null
    THEN Failure(<<"Cannot read properties of undefined (reading 'caption')">>)
    ELSE Success(
          << [platform |-> PLATFORMS[1], text |-> textData.linkedin,
              hashtags |-> Null, media |-> mediaData[1]],
             [platform |-> PLATFORMS[2], text |-> textData.facebook,
              hashtags |-> Null, media |-> mediaData[2]],
             [platform |-> PLATFORMS[3], text |-> textData.twitter,
              hashtags |-> Null, media |-> mediaData[3]],
             [platform |-> PLATFORMS[4], text |-> textData.instagram[1].caption,
              hashtags |-> Some(textData.instagram[1].hashtags), media |-> mediaData[4]] >>)

\* the media branch: Array(4).fill({url: mediaUrl, type})
uploadedMediaData(media) ==
    LET mediaUrl == DataURL(media[1].mimeType, media[1].base64)
    IN  [i \in 1..4 |-> [url |-> mediaUrl, type |-> mediaTypeOf(media)[1]]]

\* faulty variant of generatedMediaData: every post gets the first image
generatedMediaDataFirst(images) ==
    [i \in 1..4 |-> [ url  |-> DataURL(Mime("image", "jpeg"), <<images[1].generatedImages[1]>>),
                      type |-> "image" ]]

\* imageUrls.map(url => ({url, type: 'image'})) over imageResults.map(...):
\* the i-th url comes from the i-th result of Promise.all, which keeps the
\* order of the calls whatever the order they resolved in
generatedMediaData(images) ==
    [i \in 1..4 |-> [ url  |-> DataURL(Mime("image", "jpeg"), <<images[i].generatedImages[1]>>),
                      type |-> "image" ]]

\* faulty variant of afterPromiseAll: best-effort, a post whose image call
\* returned no image is delivered with an empty media url
afterPromiseAllBestEffort(textData, images) ==
    combine(textData,
            [i \in 1..4 |-> [ url  |-> IF images[i].generatedImages = <<>> THEN <<>>
                                       ELSE DataURL(Mime("image", "jpeg"),
                                                    <<images[i].generatedImages[1]>>),
                              type |-> "image" ]])

\* what follows `await Promise.all(imagePromises)` once all four resolved
afterPromiseAll(textData, images) ==
    IF \E j \in 1..4 : images[j].generatedImages = <<>>
    THEN Failure(<<"Image generation failed to return an image.">>)
    ELSE combine(textData, generatedMediaData(images))

\* faulty variant of WrapMsg: the message is passed on as it is
WrapMsgVerbatim(message) == message

\* `Failed to generate content: ${error.message}`
WrapMsg(message) == <<"Failed to generate content: ">> \o message

\* faulty variant of settle: the handler's catch answers with status 200
settleCatch200(g, r) ==
    IF gens[g].mode = "direct"
    THEN /\ gens' = RemoveAt(gens, g)
         /\ posts' = IF r.ok THEN r.posts ELSE posts
         /\ error' = IF r.ok THEN error ELSE Some(WrapMsg(r.message))
         /\ isLoading' = FALSE
    ELSE /\ gens' = [gens EXCEPT ![g].phase = "response",
                                 ![g].resp = IF r.ok
                                             THEN [status |-> 200, posts |-> r.posts, error |-> <<>>]
                                             ELSE [status |-> 200, posts |-> Null,
                                                   error |-> WrapMsg(r.message)]]
         /\ UNCHANGED <<posts, error, isLoading>>

\* faulty variant of settle: handleGenerate has no finally block, isLoading is
\* reset only after setPosts
settleNoFinally(g, r) ==
    IF gens[g].mode = "direct"
    THEN /\ gens' = RemoveAt(gens, g)
         /\ posts' = IF r.ok THEN r.posts ELSE posts
         /\ error' = IF r.ok THEN error ELSE Some(WrapMsg(r.message))
         /\ isLoading' = IF r.ok THEN FALSE ELSE isLoading
    ELSE /\ gens' = [gens EXCEPT ![g].phase = "response",
                                 ![g].resp = IF r.ok
                                             THEN [status |-> 200, posts |-> r.posts, error |-> <<>>]
                                             ELSE [status |-> 500, posts |-> Null,
                                                   error |-> WrapMsg(r.message)]]
         /\ UNCHANGED <<posts, error, isLoading>>

\* How a generation leaves generateSocialPosts (direct) or the handler's try
\* block (proxy) with result r.  Direct: the catch wraps the message, and
\* handleGenerate continues: setPosts or setError, then setIsLoading(false).
\* Proxy: the handler answers 200 with the posts or 500 with the wrapped message.
settle(g, r) ==
    IF gens[g].mode = "direct"
    THEN /\ gens' = RemoveAt(gens, g)
         /\ posts' = IF r.ok THEN r.posts ELSE posts
         /\ error' = IF r.ok THEN error ELSE Some(WrapMsg(r.message))
         /\ isLoading' = FALSE
    ELSE /\ gens' = [gens EXCEPT ![g].phase = "response",
                                 ![g].resp = IF r.ok
                                             THEN [status |-> 200, posts |-> r.posts, error |-> <<>>]
                                             ELSE [status |-> 500, posts |-> Null,
                                                   error |-> WrapMsg(r.message)]]
         /\ UNCHANGED <<posts, error, isLoading>>

NoImages == [i \in 1..4 |-> [done |-> FALSE, generatedImages |-> <<>>]]

\* a JSON value of type string, and the body generateSocialPostsViaAPI posts:
\* JSON.stringify({idea, uploadedMedia})
StringValue(s) == [type |-> "string", value |-> s]
PageBody(ideaText, media) == Some([idea |-> StringValue(ideaText), uploadedMedia |-> media])

\* A generation under way.  In proxied mode it is the HTTP exchange with the
\* handler: method and body of the request, the headers the handler has set,
\* whether it has read the body, and its response.
NewGen(mode, phase) ==
    [ mode |-> mode, idea |-> idea, media |-> uploadedMedia, phase |-> phase,
      textData |-> Null, images |-> NoImages,
      resp |-> [status |-> 0, posts |-> Null, error |-> <<>>],
      client |-> "page", method |-> "POST", body |-> PageBody(idea, uploadedMedia),
      headers |-> Null, bodyRead |-> FALSE ]

\* faulty variant of getAIClient: the client is built without looking at the key
getAIClientAnyway(client, apiKey) == [threw |-> FALSE, ai |-> TRUE]

\* getAIClient(): the singleton is created on first use; without a key it throws
ConfigErrorMsg == <<"API key is not configured. Please set GEMINI_API_KEY in your environment.">>
getAIClient(client, apiKey) ==
    IF client THEN [threw |-> FALSE, ai |-> TRUE]
    ELSE IF ~apiKey THEN [threw |-> TRUE, ai |-> FALSE]
    ELSE [threw |-> FALSE, ai |-> TRUE]

BlankIdeaMsg == <<"Please enter an idea to generate content.">>

\* faulty variant of handleGenerate: the earlier result set is not cleared
handleGenerateKeepsPosts ==
    IF Trim(idea) = <<>>
    THEN /\ error' = Some(BlankIdeaMsg)
         /\ UNCHANGED <<posts, isLoading, ai, genVars>>
    ELSE /\ isLoading' = TRUE
         /\ posts' = posts
         /\ error' = Null
         /\ IF hasApiKey
            THEN /\ ai' = TRUE
                 /\ gens' = Append(gens, NewGen("direct", "text"))
                 /\ requests' = <<textRequest("direct", idea, uploadedMedia)>>
            ELSE /\ ai' = ai
                 /\ gens' = Append(gens, NewGen("proxy", "fetch"))
                 /\ requests' = <<>>

\* faulty variant of handleGenerateIn: the state is reset before the idea is
\* looked at
handleGenerateInResetsFirst(useAPI, apiKey) ==
    IF Trim(idea) = <<>>
    THEN /\ error' = Some(BlankIdeaMsg)
         /\ posts' = Null
         /\ UNCHANGED <<isLoading, ai, genVars>>
    ELSE /\ posts' = Null
         /\ IF useAPI
            THEN /\ isLoading' = TRUE
                 /\ ai' = ai
                 /\ error' = Null
                 /\ gens' = Append(gens, NewGen("proxy", "fetch"))
                 /\ requests' = <<>>
            ELSE IF getAIClient(ai, apiKey).threw
            THEN /\ isLoading' = FALSE
                 /\ ai' = ai
                 /\ error' = Some(WrapMsg(ConfigErrorMsg))
                 /\ gens' = gens
                 /\ requests' = <<>>
            ELSE /\ isLoading' = TRUE
                 /\ ai' = getAIClient(ai, apiKey).ai
                 /\ error' = Null
                 /\ gens' = Append(gens, NewGen("direct", "text"))
                 /\ requests' = <<textRequest("direct", idea, uploadedMedia)>>

\* handleGenerate, up to its await.  Direct mode reaches getAIClient() and
\* the text call; proxied mode sends the fetch.
\* useAPI is !process.env.API_KEY as App.tsx reads it, apiKey is
\* process.env.API_KEY as geminiService.ts reads it.  When getAIClient throws,
\* generateSocialPosts rejects before it awaits anything and handleGenerate's
\* catch and finally run in the same task.
handleGenerateIn(useAPI, apiKey) ==
    IF Trim(idea) = <<>>
    THEN /\ error' = Some(BlankIdeaMsg)
         /\ UNCHANGED <<posts, isLoading, ai, genVars>>
    ELSE /\ posts' = Null
         /\ IF useAPI
            THEN /\ isLoading' = TRUE
                 /\ ai' = ai
                 /\ error' = Null
                 /\ gens' = Append(gens, NewGen("proxy", "fetch"))
                 /\ requests' = <<>>
            ELSE IF getAIClient(ai, apiKey).threw
            THEN /\ isLoading' = FALSE
                 /\ ai' = ai
                 /\ error' = Some(WrapMsg(ConfigErrorMsg))
                 /\ gens' = gens
                 /\ requests' = <<>>
            ELSE /\ isLoading' = TRUE
                 /\ ai' = getAIClient(ai, apiKey).ai
                 /\ error' = Null
                 /\ gens' = Append(gens, NewGen("direct", "text"))
                 /\ requests' = <<textRequest("direct", idea, uploadedMedia)>>

handleGenerate == handleGenerateIn(~hasApiKey, hasApiKey)

\* faulty variant of Generate: the button is not disabled while loading
GenerateWhileLoading ==
    /\ Trim(idea) # <<>>
    /\ handleGenerate
    /\ alertMsg' = Null /\ pasted' = Null /\ processed' = Null /\ encoded' = Null
    /\ UNCHANGED <<idea, uploadedMedia, envVars, voiceVars, reads>>

\* a click on "Generate Content": disabled={isLoading || !idea.trim()}
Generate ==
    /\ ~isLoading
    /\ Trim(idea) # <<>>
    /\ handleGenerate
    /\ alertMsg' = Null /\ pasted' = Null /\ processed' = Null /\ encoded' = Null
    /\ UNCHANGED <<idea, uploadedMedia, envVars, voiceVars, reads>>

\* handleGenerate called while idea.trim() is empty.  The button is disabled
\* then, so this follows the function's first branch, not a click.
GenerateBlank ==
    /\ ~isLoading
    /\ Trim(idea) = <<>>
    /\ handleGenerate
    /\ alertMsg' = Null /\ pasted' = Null /\ processed' = Null /\ encoded' = Null
    /\ UNCHANGED <<idea, uploadedMedia, envVars, voiceVars, reads>>

\* generateSocialPosts(idea, uploadedMedia) from handleGenerate in a bundle
\* where geminiService.ts reads process.env.API_KEY as apiKey.  App.tsx takes
\* this branch only when its own read of the key is non-empty; the action
\* leaves the key open, to follow getAIClient on both of its paths.
GenerateDirect(apiKey) ==
    /\ ~isLoading
    /\ Trim(idea) # <<>>
    /\ handleGenerateIn(FALSE, apiKey)
    /\ alertMsg' = Null /\ pasted' = Null /\ processed' = Null /\ encoded' = Null
    /\ UNCHANGED <<idea, uploadedMedia, envVars, voiceVars, reads>>

\* the headers the handler sets on every response
CorsHeaders ==
    [ allowCredentials |-> "true",
      allowOrigin      |-> "*",
      allowMethods     |-> "GET,OPTIONS,PATCH,DELETE,POST,PUT",
      allowHeaders     |-> "X-CSRF-Token, X-Requested-With, Accept, Accept-Version, Content-Length, Content-MD5, Content-Type, Date, X-Api-Version" ]

\* faulty variant of Answered: every answer has status 200
AnsweredOk(exchange, status, message, bodyRead) ==
    [exchange EXCEPT !.phase = "response",
                     !.headers = Some(CorsHeaders),
                     !.bodyRead = bodyRead,
                     !.resp = [status |-> 200, posts |-> Null, error |-> message]]

\* the exchange `exchange` after res.status(status) with an {error} body, or
\* with no body when message is empty
Answered(exchange, status, message, bodyRead) ==
    [exchange EXCEPT !.phase = "response",
                     !.headers = Some(CorsHeaders),
                     !.bodyRead = bodyRead,
                     !.resp = [status |-> status, posts |-> Null, error |-> message]]

\* The request reaches the handler, which runs up to its first await or to
\* its response: the CORS headers, the method dispatch, the destructuring of
\* req.body (which throws into the catch when there is no body), the idea
\* check, the key check, mediaType (which throws when uploadedMedia has no
\* mimeType), then the text call.
handlerReceives(g, serverKey) ==
    /\ g \in 1..Len(gens)
    /\ gens[g].mode = "proxy" /\ gens[g].phase = "fetch"
    /\ LET req == gens[g] IN
       IF req.method = "OPTIONS"
       THEN /\ gens' = [gens EXCEPT ![g] = Answered(req, 200, <<>>, FALSE)]
            /\ requests' = requests
       ELSE IF req.method # "POST"
       THEN /\ gens' = [gens EXCEPT ![g] = Answered(req, 405, <<"Method not allowed">>, FALSE)]
            /\ requests' = requests
       ELSE IF req.body = Null
       THEN /\ gens' = [gens EXCEPT ![g] = Answered(req, 500,
                            WrapMsg(<<"Cannot destructure property 'idea' of 'req.body' as it is undefined.">>),
                            TRUE)]
            /\ requests' = requests
       ELSE IF req.body[1].idea.type # "string" \/ Trim(req.body[1].idea.value) = <<>>
       THEN /\ gens' = [gens EXCEPT ![g] = Answered(req, 400, <<"Idea is required">>, TRUE)]
            /\ requests' = requests
       ELSE IF ~serverKey
       THEN /\ gens' = [gens EXCEPT ![g] = Answered(req, 500,
                            <<"API key not configured on server">>, TRUE)]
            /\ requests' = requests
       ELSE IF req.body[1].uploadedMedia # Null /\ req.body[1].uploadedMedia[1].mimeType = Undefined
       THEN /\ gens' = [gens EXCEPT ![g] = Answered(req, 500,
                            WrapMsg(<<"Cannot read properties of undefined (reading 'startsWith')">>),
                            TRUE)]
            /\ requests' = requests
       ELSE /\ gens' = [gens EXCEPT ![g].phase = "text",
                                    ![g].headers = Some(CorsHeaders),
                                    ![g].bodyRead = TRUE,
                                    ![g].idea = req.body[1].idea.value,
                                    ![g].media = req.body[1].uploadedMedia]
            /\ requests' = Append(requests,
                    textRequest("proxy", req.body[1].idea.value, req.body[1].uploadedMedia))
    /\ alertMsg' = Null /\ pasted' = Null /\ processed' = Null /\ encoded' = Null
    /\ UNCHANGED <<appVars, envVars, voiceVars, reads>>

\* What a client other than the page can send to /api/generate: any method,
\* no body or a JSON body whose idea is missing, not a string, blank or a
\* text, and whose uploadedMedia is null, a media record or an object
\* without mimeType.
Methods == { "OPTIONS", "GET", "PUT", "POST" }
IdeaValues ==
    { [type |-> "undefined", value |-> <<>>], [type |-> "number", value |-> <<>>],
      StringValue(<<>>), StringValue(<<" ">>), StringValue(<<"pizza">>) }
BodyMedia ==
    { Null,
      Some([base64 |-> <<"AAAA">>, mimeType |-> Mime("video", "mp4")]),
      Some([base64 |-> <<"AAAA">>, mimeType |-> Undefined]) }
Bodies == {Null} \cup { Some([idea |-> i, uploadedMedia |-> m]) : i \in IdeaValues, m \in BodyMedia }

\* such a request arrives at the handler.  Invocations of the handler share
\* no state, so they are followed one at a time.
httpRequest(method, body) ==
    /\ gens = <<>>
    /\ ~isLoading
    /\ gens' = << [NewGen("proxy", "fetch") EXCEPT !.client = "external",
                                                   !.method = method, !.body = body,
                                                   !.idea = <<>>, !.media = Null] >>
    /\ requests' = <<>>
    /\ alertMsg' = Null /\ pasted' = Null /\ processed' = Null /\ encoded' = Null
    /\ UNCHANGED <<appVars, envVars, voiceVars, reads>>

\* the handler's response leaves for that client
responseDelivered(g) ==
    /\ g \in 1..Len(gens)
    /\ gens[g].client = "external" /\ gens[g].phase = "response"
    /\ gens' = RemoveAt(gens, g)
    /\ alertMsg' = Null /\ pasted' = Null /\ processed' = Null /\ encoded' = Null
    /\ UNCHANGED <<appVars, envVars, voiceVars, reads, requests>>

\* the text call settles with outcome o; JSON.parse; then the media branch
\* finishes at once and the no-media branch issues the four image calls
textSettles(g, o) ==
    /\ g \in 1..Len(gens)
    /\ gens[g].phase = "text"
    /\ alertMsg' = Null /\ pasted' = Null /\ processed' = Null /\ encoded' = Null
    /\ LET settled == [requests EXCEPT ![1].outcome = o.kind, ![1].result = o.data] IN
       IF o.kind # "json"
       THEN settle(g, Failure(o.message)) /\ requests' = settled
       ELSE LET textData == o.data[1] IN
            IF gens[g].media # Null
            THEN settle(g, combine(textData, uploadedMediaData(gens[g].media)))
                 /\ requests' = settled
            ELSE IF textData.instagram = Null
            THEN settle(g, Failure(<<"Cannot read properties of undefined (reading 'image_prompt')">>))
                 /\ requests' = settled
            ELSE LET given == textData.instagram[1].image_prompt
                     imagePrompt == IF given # <<>> /\ given # Undefined THEN given
                                    ELSE <<"A visually stunning image representing: ">>
                                          \o gens[g].idea \o <<".">>
                 IN  /\ gens' = [gens EXCEPT ![g].phase = "images", ![g].textData = o.data]
                     /\ requests' = settled \o imagePromises(gens[g].mode, imagePrompt)
                     /\ UNCHANGED <<posts, error, isLoading>>
    /\ UNCHANGED <<idea, uploadedMedia, ai, envVars, voiceVars, reads>>

\* the i-th image call resolves, with one image or with none.  When it is the
\* last one Promise.all resolves and the map over the results runs.
imageResolves(g, i, hasImage) ==
    /\ g \in 1..Len(gens)
    /\ gens[g].phase = "images"
    /\ i \in 1..4
    /\ ~gens[g].images[i].done
    /\ alertMsg' = Null /\ pasted' = Null /\ processed' = Null /\ encoded' = Null
    /\ LET generatedImages == IF hasImage THEN <<ImageOfCall(i)>> ELSE <<>>
           images == [gens[g].images EXCEPT
                        ![i] = [done |-> TRUE, generatedImages |-> generatedImages]]
       IN  /\ requests' = [requests EXCEPT ![1 + i].outcome = IF hasImage THEN "ok" ELSE "empty",
                                           ![1 + i].result = generatedImages]
           /\ IF \E j \in 1..4 : ~images[j].done
              THEN /\ gens' = [gens EXCEPT ![g].images = images]
                   /\ UNCHANGED <<posts, error, isLoading>>
              ELSE settle(g, afterPromiseAll(gens[g].textData[1], images))
    /\ UNCHANGED <<idea, uploadedMedia, ai, envVars, voiceVars, reads>>

\* the message of the Error an image call rejects with
ImageRejectionMsg == <<"image service unavailable">>

\* the i-th image call rejects: Promise.all rejects at once
imageRejects(g, i) ==
    /\ g \in 1..Len(gens)
    /\ gens[g].phase = "images"
    /\ i \in 1..4
    /\ ~gens[g].images[i].done
    /\ alertMsg' = Null /\ pasted' = Null /\ processed' = Null /\ encoded' = Null
    /\ requests' = [requests EXCEPT ![1 + i].outcome = "rejected"]
    /\ settle(g, Failure(ImageRejectionMsg))
    /\ UNCHANGED <<idea, uploadedMedia, ai, envVars, voiceVars, reads>>

\* generateSocialPostsViaAPI after its fetch, and handleGenerate after it:
\* r is what the client code ends with
clientSettles(g, r) ==
    /\ gens' = RemoveAt(gens, g)
    /\ posts' = IF r.ok THEN r.posts ELSE posts
    /\ error' = IF r.ok THEN error ELSE Some(WrapMsg(r.message))
    /\ isLoading' = FALSE

\* the handler's response reaches the browser
responseArrives(g) ==
    /\ g \in 1..Len(gens)
    /\ gens[g].mode = "proxy" /\ gens[g].phase = "response"
    /\ gens[g].client = "page"
    /\ alertMsg' = Null /\ pasted' = Null /\ processed' = Null /\ encoded' = Null
    /\ LET resp == gens[g].resp
       IN  IF resp.status # 200
           THEN clientSettles(g, Failure(IF resp.error # <<>> THEN resp.error
                                         ELSE <<"Server error: ", ToString(resp.status)>>))
           ELSE clientSettles(g, Success(resp.posts[1]))
    /\ UNCHANGED <<idea, uploadedMedia, ai, envVars, voiceVars, reads, requests>>

\* the fetch rejects (network failure) while the request is under way
fetchRejects(g) ==
    /\ g \in 1..Len(gens)
    /\ gens[g].mode = "proxy"
    /\ gens[g].client = "page"
    /\ alertMsg' = Null /\ pasted' = Null /\ processed' = Null /\ encoded' = Null
    /\ clientSettles(g, Failure(<<"Failed to fetch">>))
    /\ UNCHANGED <<idea, uploadedMedia, ai, envVars, voiceVars, reads, requests>>

-----------------------------------------------------------------------------
(* The system *)

Init ==
    /\ variant \in {"current", "older"}
    /\ hasApiKey \in BOOLEAN
    /\ idea = <<>>
    /\ uploadedMedia = Null
    /\ posts = Null
    /\ isLoading = FALSE
    /\ error = Null
    /\ ai = FALSE
    /\ isRecording = FALSE
    /\ speechError = Null
    /\ errorTimer = Null
    /\ recognitionRef = Null
    /\ sessions = <<>>
    /\ reads = <<>>
    /\ alertMsg = Null
    /\ gens = <<>>
    /\ requests = <<>>
    /\ pasted = Null
    /\ processed = Null
    /\ encoded = Null

Next ==
    \/ \E f \in {Null} \cup {Some(x) : x \in Files} : handleMediaUpload(f)
    \/ removeMedia
    \/ \E items \in ListsOf(ClipboardItems) : handlePaste(items)
    \/ \E files \in ListsOf(ItemFiles) : handleDrop(files)
    \/ \E i \in 1..MaxReads : readerOnload(i)
    \/ \E i \in 1..MaxReads : compressRejected(i)
    \/ \E i \in 1..MaxReads, hasCtx \in BOOLEAN, dims \in ImageDims, over \in 0..MaxOver :
            imgOnload(i, hasCtx, dims, over)
    \/ \E i \in 1..MaxReads, ok \in BOOLEAN : readerOnloadend(i, ok)
    \/ \E online \in BOOLEAN, outcome \in {"started", "startThrows", "ctorThrows"} :
            ToggleRecording(online, outcome)
    \/ \E s \in 1..MaxSessions : onstart(s)
    \/ \E s \in 1..MaxSessions, t \in Transcripts : onresult(s, t)
    \/ \E s \in 1..MaxSessions, e \in SpeechErrors : onerror(s, e)
    \/ \E s \in 1..MaxSessions : onend(s)
    \/ speechErrorTimeout
    \/ \E v \in TypedIdeas : handleIdeaChange(v)
    \/ Generate
    \/ \E g \in 1..Len(gens), k \in BOOLEAN : handlerReceives(g, k)
    \/ \E g \in 1..Len(gens), o \in TextOutcomes : textSettles(g, o)
    \/ \E g \in 1..Len(gens), i \in 1..4, b \in BOOLEAN : imageResolves(g, i, b)
    \/ \E g \in 1..Len(gens), i \in 1..4 : imageRejects(g, i)
    \/ \E g \in 1..Len(gens) : responseArrives(g)
    \/ \E g \in 1..Len(gens) : fetchRejects(g)
    \/ \E method \in Methods, body \in Bodies : httpRequest(method, body)
    \/ \E g \in 1..Len(gens) : responseDelivered(g)

Spec == Init /\ [][Next]_vars

-----------------------------------------------------------------------------
(* The components, each with the rest of the system as its environment.    *)
(* The state space of the whole is the product of the three; each          *)
(* specification below runs one component in full and keeps of the others  *)
(* the actions that change what the component reads.                       *)

\* Generation as the other components see it, in direct-call mode: the click
\* sets isLoading and clears posts and error, and the cycle ends by a failure
\* of the text call or of an image call, or (with media) by a success.
TextOutcomesBrief ==
    { o \in TextOutcomes : o.kind = "rejected" \/ (o.kind = "json" /\ o.data[1].linkedin # Undefined
                                                     /\ o.data[1].instagram # Null
                                                     /\ o.data[1].instagram[1].hashtags # <<>>) }
GenerationRuns ==
    \/ Generate
    \/ \E g \in 1..Len(gens), o \in TextOutcomesBrief : textSettles(g, o)
    \/ \E g \in 1..Len(gens) : imageRejects(g, 1)

InitDirect == Init /\ hasApiKey

\* media preparation: every surface delivering one file (or none), every
\* completion
NextMedia ==
    \/ \E f \in {Null} \cup {Some(x) : x \in Files} : handleMediaUpload(f)
    \/ removeMedia
    \/ \E item \in ClipboardItems : handlePaste(<<item>>)
    \/ \E f \in Files : handleDrop(<<f>>)
    \/ handleDrop(<<>>)
    \/ \E i \in 1..MaxReads : readerOnload(i)
    \/ \E i \in 1..MaxReads : compressRejected(i)
    \/ \E i \in 1..MaxReads, dims \in ImageDims, over \in {0, MaxOver} :
            imgOnload(i, TRUE, dims, over)
    \/ \E i \in 1..MaxReads : imgOnload(i, FALSE, <<800, 600>>, 0)
    \/ \E i \in 1..MaxReads, ok \in BOOLEAN : readerOnloadend(i, ok)
    \/ handleIdeaChange(<<"pizza">>)
    \/ GenerationRuns

SpecMedia == InitDirect /\ [][NextMedia]_vars

\* paste and drop events that carry several entries, and what becomes of the
\* reads they start
NextPaste ==
    \/ \E items \in ListsOf(ClipboardItems) : handlePaste(items)
    \/ \E files \in ListsOf(ItemFiles) : handleDrop(files)
    \/ removeMedia
    \/ \E i \in 1..MaxReads : readerOnload(i)
    \/ \E i \in 1..MaxReads : compressRejected(i)
    \/ \E i \in 1..MaxReads, over \in {0, MaxOver} : imgOnload(i, TRUE, <<800, 600>>, over)
    \/ \E i \in 1..MaxReads : imgOnload(i, FALSE, <<800, 600>>, 0)
    \/ \E i \in 1..MaxReads, ok \in BOOLEAN : readerOnloadend(i, ok)

SpecPaste == InitDirect /\ [][NextPaste]_vars

\* voice capture: the toggle, the browser's callbacks, the timer, typing
NextVoice ==
    \/ \E online \in BOOLEAN, outcome \in {"started", "startThrows", "ctorThrows"} :
            ToggleRecording(online, outcome)
    \/ \E s \in 1..MaxSessions : onstart(s)
    \/ \E s \in 1..MaxSessions, t \in Transcripts : onresult(s, t)
    \/ \E s \in 1..MaxSessions, e \in SpeechErrors : onerror(s, e)
    \/ \E s \in 1..MaxSessions : onend(s)
    \/ speechErrorTimeout
    \/ \E v \in TypedIdeas : handleIdeaChange(v)
    \/ GenerationRuns

\* the two InputSection variants have the same voice code
InitVoice == InitDirect /\ variant = "current"

SpecVoice == InitVoice /\ [][NextVoice]_vars

\* the browser delivers onend to every session that has started listening or
\* has been stopped
FairSpecVoice == SpecVoice /\ \A s \in 1..MaxSessions : WF_vars(onend(s))

\* the media that media preparation can have stored when a generation starts
\* every message setSpeechError is called with
SpeechMessages ==
    {OfflineMsg, UnsupportedSpeechMsg, CouldNotStartMsg} \cup {SpeechErrorMessage(e) : e \in SpeechErrors}

\* the speech error and its timer: everything that sets or clears speechError
NextTimer ==
    \/ \E online \in BOOLEAN, outcome \in {"started", "startThrows", "ctorThrows"} :
            ToggleRecording(online, outcome)
    \/ \E s \in 1..MaxSessions : onstart(s)
    \/ \E s \in 1..MaxSessions : onresult(s, <<"special">>)
    \/ \E s \in 1..MaxSessions, e \in SpeechErrors : onerror(s, e)
    \/ \E s \in 1..MaxSessions : onend(s)
    \/ speechErrorTimeout
    \/ handleIdeaChange(<<"pizza">>)

SpecTimer == InitVoice /\ [][NextTimer]_vars

\* setTimeout: a timer that stays armed fires, whatever value it was armed for
FairSpecTimer ==
    SpecTimer /\ \A v \in SpeechMessages : WF_vars(speechErrorTimeout /\ errorTimer = Some(v))

PreparedMedia ==
    { rawMedia(f.type, f.data) :
        f \in { x \in Files : x.size <= MaxFileSize /\ x.type \in acceptedTypes
                              /\ ~(variant = "current" /\ StartsWith(x.type, <<"image", "/">>)) } }
    \cup { [base64 |-> compressImage(f.data, 800, 600, 0).base64, mimeType |-> Mime("image", "jpeg")] :
        f \in { x \in Files : x.size <= MaxFileSize /\ x.type \in acceptedTypes
                              /\ variant = "current" /\ StartsWith(x.type, <<"image", "/">>) } }

InitGen ==
    /\ variant \in {"current", "older"}
    /\ hasApiKey \in BOOLEAN
    /\ idea = <<>>
    /\ uploadedMedia \in {Null} \cup {Some(m) : m \in PreparedMedia}
    /\ posts = Null
    /\ isLoading = FALSE
    /\ error = Null
    /\ ai = FALSE
    /\ isRecording = FALSE
    /\ speechError = Null
    /\ errorTimer = Null
    /\ recognitionRef = Null
    /\ sessions = <<>>
    /\ reads = <<>>
    /\ alertMsg = Null
    /\ gens = <<>>
    /\ requests = <<>>
    /\ pasted = Null
    /\ processed = Null
    /\ encoded = Null

\* generation: the click, the provider's answers in every order, the proxy
NextGen ==
    \/ \E v \in TypedIdeas : handleIdeaChange(v)
    \/ removeMedia
    \/ Generate
    \/ \E g \in 1..Len(gens), k \in BOOLEAN : handlerReceives(g, k)
    \/ \E g \in 1..Len(gens), o \in TextOutcomes : textSettles(g, o)
    \/ \E g \in 1..Len(gens), i \in 1..4, b \in BOOLEAN : imageResolves(g, i, b)
    \/ \E g \in 1..Len(gens), i \in 1..4 : imageRejects(g, i)
    \/ \E g \in 1..Len(gens) : responseArrives(g)
    \/ \E g \in 1..Len(gens) : fetchRejects(g)

SpecGen == InitGen /\ [][NextGen]_vars

\* every awaited call settles: the handler is invoked, the provider answers
\* or rejects, the fetch resolves or rejects
GenerationProgress ==
    \/ \E g \in 1..Len(gens), k \in BOOLEAN : handlerReceives(g, k)
    \/ \E g \in 1..Len(gens), o \in TextOutcomes : textSettles(g, o)
    \/ \E g \in 1..Len(gens), i \in 1..4, b \in BOOLEAN : imageResolves(g, i, b)
    \/ \E g \in 1..Len(gens), i \in 1..4 : imageRejects(g, i)
    \/ \E g \in 1..Len(gens) : responseArrives(g)
    \/ \E g \in 1..Len(gens) : fetchRejects(g)

FairSpecGen == SpecGen /\ WF_vars(GenerationProgress)

\* JSON bodies whose idea the handler's check turns down
BlankBodies ==
    { b \in Bodies \ {Null} :
        /\ (b[1].idea.type # "string" \/ Trim(b[1].idea.value) = <<>>)
        /\ b[1].uploadedMedia = Null }

\* generation triggers with any idea from the page, and POSTs without an idea
\* from other clients of /api/generate
NextTrigger ==
    \/ NextGen
    \/ GenerateBlank
    \/ \E body \in BlankBodies : httpRequest("POST", body)
    \/ \E g \in 1..Len(gens) : responseDelivered(g)

SpecTrigger == InitGen /\ [][NextTrigger]_vars

\* the proxy handler on its own, serving the requests of any client
InitHandler == Init /\ variant = "current" /\ ~hasApiKey

NextHandler ==
    \/ \E method \in Methods, body \in Bodies : httpRequest(method, body)
    \/ \E g \in 1..Len(gens), k \in BOOLEAN : handlerReceives(g, k)
    \/ \E g \in 1..Len(gens), o \in TextOutcomes : textSettles(g, o)
    \/ \E g \in 1..Len(gens), i \in 1..4, b \in BOOLEAN : imageResolves(g, i, b)
    \/ \E g \in 1..Len(gens), i \in 1..4 : imageRejects(g, i)
    \/ \E g \in 1..Len(gens) : responseDelivered(g)

SpecHandler == InitHandler /\ [][NextHandler]_vars

\* compressImage on its own: image files picked in the current InputSection,
\* decoded to every size of ImageDims, with every number of oversize encodings
InitCompress == InitDirect /\ variant = "current"

NextCompress ==
    \/ \E f \in { x \in Files : StartsWith(x.type, <<"image", "/">>) } : handleMediaUpload(Some(f))
    \/ removeMedia
    \/ \E i \in 1..MaxReads : readerOnload(i)
    \/ \E i \in 1..MaxReads : compressRejected(i)
    \/ \E i \in 1..MaxReads, hasCtx \in BOOLEAN, dims \in ImageDims, over \in 0..MaxOver :
            imgOnload(i, hasCtx, dims, over)

SpecCompress == InitCompress /\ [][NextCompress]_vars

\* generation with and without a key: the handler, and generateSocialPosts
\* entered whatever the key; one generation at a time
InitKeys == Init /\ variant = "current"

NextKeys ==
    \/ NextHandler
    \/ handleIdeaChange(<<"pizza">>)
    \/ \E apiKey \in BOOLEAN : gens = <<>> /\ GenerateDirect(apiKey)

SpecKeys == InitKeys /\ [][NextKeys]_vars

-----------------------------------------------------------------------------
(* Properties of media preparation *)

\* s contains p as a run of consecutive tokens
Contains(s, p) == \E k \in 0..(Len(s) - Len(p)) : SubSeq(s, k + 1, k + Len(p)) = p

\* C1: a file larger than the ceiling (100MB in the current InputSection, 20MB
\* in the older one) that reaches processFile, by the picker, a paste or a
\* drop, is rejected with the "too large" message; no read is started for it,
\* so setUploadedMedia is never called for it, and uploadedMedia keeps the
\* value it had.
C1_OversizeRejected ==
    [][ (processed' # Null /\ processed'[1].size > MaxFileSize)
          => /\ alertMsg' = Some(TooLargeMsg)
             /\ reads' = reads
             /\ uploadedMedia' = uploadedMedia ]_vars

\* an oversize file has just been rejected while media from before is shown
C1_Witness ==
    /\ processed # Null /\ processed[1].size > MaxFileSize
    /\ alertMsg = Some(TooLargeMsg)
    /\ uploadedMedia # Null

\* C2: a file within the ceiling whose MIME type is not in acceptedTypes is
\* rejected with a message that names the type; no read is started and
\* uploadedMedia keeps the value it had.
C2_UnsupportedRejected ==
    [][ (/\ processed' # Null
         /\ processed'[1].size <= MaxFileSize
         /\ processed'[1].type \notin acceptedTypes)
          => /\ alertMsg' # Null
             /\ StartsWith(alertMsg'[1], <<"Unsupported file type: ">>)
             /\ Contains(alertMsg'[1], processed'[1].type)
             /\ reads' = reads
             /\ uploadedMedia' = uploadedMedia ]_vars

\* an image/gif within the ceiling has just been rejected while media from
\* before is shown
C2_Witness ==
    /\ processed # Null
    /\ processed[1].size <= MaxFileSize
    /\ processed[1].type = Mime("image", "gif")
    /\ alertMsg = Some(UnsupportedMsg(Mime("image", "gif")))
    /\ uploadedMedia # Null

\* C3: uploadedMedia is null, or its mimeType is one of the accepted types
\* and its base64 does not begin with the "data:" prefix of a data URL.
C3_StoredMediaWellFormed ==
    uploadedMedia = Null
      \/ (/\ uploadedMedia[1].mimeType \in acceptedTypes
          /\ ~Contains(uploadedMedia[1].base64, <<"data:">>))

\* a video read without compression has been stored
C3_Witness ==
    /\ uploadedMedia # Null
    /\ uploadedMedia[1].mimeType = Mime("video", "mp4")
    /\ uploadedMedia[1].base64 = <<"AAAA">>

\* the first item of a clipboard that is an image item
FirstImageItem(items) == CHOOSE i \in ImageItems(items) : \A j \in ImageItems(items) : i <= j

\* a paste event, outside a generation in flight, whose clipboard holds two
\* or more image items is handled in this step
PasteOfSeveralImages ==
    /\ ~isLoading
    /\ pasted' # Null
    /\ Cardinality(ImageItems(pasted'[1])) >= 2

\* C7 as stated: a paste event whose clipboard holds two or more image items
\* results in exactly one UploadedMedia update, taken from the first image
\* item: it starts exactly one read, that of the first image item's file.
C7_ExactlyOneFromFirstImage ==
    [][ PasteOfSeveralImages
          => LET item == pasted'[1][FirstImageItem(pasted'[1])]
             IN  /\ item.file # Null
                 /\ processed' = item.file
                 /\ reads' = Append(reads, NewRead(item.file[1])) ]_vars

\* C7: a paste event whose clipboard holds two or more image items passes
\* at most one file to processFile, the file of the first image item, in
\* index order, that yields a file; no later item is processed.  At most one
\* read is started, that of this file, and it is started exactly when the
\* file passes the size and type checks; the paste itself leaves
\* uploadedMedia as it was.
C7_AtMostOneFromFirstImageFile ==
    [][ PasteOfSeveralImages
          => LET items == pasted'[1]
                 withFile == { i \in ImageItems(items) : items[i].file # Null }
             IN  /\ uploadedMedia' = uploadedMedia
                 /\ IF withFile = {}
                    THEN processed' = Null /\ reads' = reads
                    ELSE LET f == items[CHOOSE i \in withFile : \A j \in withFile : i <= j].file
                         IN  /\ processed' = f
                             /\ IF f[1].size <= MaxFileSize /\ f[1].type \in acceptedTypes
                                THEN reads' = Append(reads, NewRead(f[1]))
                                ELSE reads' = reads ]_vars

\* a paste of two image items has just been handled: the first yields no
\* file, the second is a PNG whose read has been started
C7_Witness ==
    /\ pasted # Null
    /\ Len(pasted[1]) = 2
    /\ ImageItems(pasted[1]) = {1, 2}
    /\ pasted[1][1].file = Null
    /\ processed = pasted[1][2].file
    /\ reads # <<>>
    /\ reads[Len(reads)] = NewRead(processed[1])

-----------------------------------------------------------------------------
(* Properties of voice capture *)

\* the sessions that have been started and have not ended
ActiveSessions ==
    { s \in 1..Len(sessions) : sessions[s].phase \in {"starting", "listening"} }

\* C8 as stated: at most one speech-recognition session is active at any
\* time, the time between recognition.start() and onstart included.
C8_AtMostOneActiveSession == Cardinality(ActiveSessions) <= 1

\* C9: whenever isRecording is true it becomes false again (the browser
\* delivering onend), after a stop, a result or an error alike; and a step
\* in which the start of a session throws ends with isRecording false.
C9_RecordingReturnsToIdle ==
    /\ isRecording ~> ~isRecording
    /\ [][ (/\ speechError' = Some(CouldNotStartMsg)
            /\ (speechError' # speechError \/ Len(sessions') > Len(sessions)))
             => isRecording' = FALSE ]_vars

\* a session that was recording and was stopped by the toggle has ended, and
\* the recording flag is down
C9_Witness ==
    /\ ~isRecording
    /\ \E s \in 1..Len(sessions) : sessions[s].phase = "ended" /\ sessions[s].stopped

-----------------------------------------------------------------------------
(* Properties of generation.  `requests` is the log of the provider calls   *)
(* of the generation started last, with the outcome of each.               *)

\* the text call returned JSON that carries the instagram object
TextCallSucceeded ==
    /\ requests # <<>>
    /\ requests[1].outcome = "json"
    /\ requests[1].result[1].instagram # Null

\* the four image calls were issued and every one returned an image
ImageCallsSucceeded ==
    /\ Len(requests) = 5
    /\ \A i \in 2..5 : requests[i].api = "generateImages" /\ requests[i].outcome = "ok"

\* an image call rejected or returned zero images
AnImageCallFailed ==
    \E i \in 2..Len(requests) : requests[i].outcome \in {"rejected", "empty"}

\* the browser's fetch of /api/generate was rejected by the network
TransportFailed == error = Some(WrapMsg(<<"Failed to fetch">>))

\* The post list that generation has returned: in proxied mode the body of
\* the handler's 200 response while it travels, otherwise what handleGenerate
\* stored.  Null when no list was returned.
ReturnedPosts ==
    IF gens # <<>>
    THEN IF gens[1].phase = "response" THEN gens[1].resp.posts ELSE Null
    ELSE posts

\* C4: without uploaded media, when the text call and the four image calls
\* succeed, generate returns exactly 4 posts, for LinkedIn, Facebook, Twitter
\* and Instagram in this order; post i carries the image the i-th image call
\* returned, and every media.type is 'image'.
C4_GeneratedImagesInOrder ==
    (/\ TextCallSucceeded /\ requests[1].inline = Null
     /\ ImageCallsSucceeded
     /\ ~TransportFailed)
      => /\ ReturnedPosts # Null
         /\ Len(ReturnedPosts[1]) = 4
         /\ \A i \in 1..4 :
              /\ ReturnedPosts[1][i].platform
                    = <<"LinkedIn", "Facebook", "Twitter", "Instagram">>[i]
              /\ ReturnedPosts[1][i].media.url
                    = DataURL(Mime("image", "jpeg"), requests[1 + i].result)
              /\ ReturnedPosts[1][i].media.type = "image"

\* a generation without media has delivered its four posts to the page, each
\* with an image of its own
C4_Witness ==
    /\ TextCallSucceeded /\ requests[1].inline = Null
    /\ ImageCallsSucceeded
    /\ gens = <<>> /\ posts # Null
    /\ \A i, j \in 1..4 : i # j => posts[1][i].media.url # posts[1][j].media.url

\* C5: with uploaded media, no image-generation call is issued; when the
\* text call succeeds all four returned posts carry the same media.url, the
\* data URL 'data:<mimeType>;base64,<base64>' of the uploaded media, and the
\* same media.type: 'video' for a video MIME type, 'image' otherwise.
C5_UploadedMediaReused ==
    (requests # <<>> /\ requests[1].inline # Null)
      => /\ \A i \in 1..Len(requests) : requests[i].api # "generateImages"
         /\ (TextCallSucceeded /\ ~TransportFailed)
              => /\ ReturnedPosts # Null
                 /\ Len(ReturnedPosts[1]) = 4
                 /\ \A i \in 1..4 :
                      ReturnedPosts[1][i].media =
                        [ url  |-> <<"data:">> \o requests[1].inline[1].mimeType
                                     \o <<";base64", ",">> \o requests[1].inline[1].data,
                          type |-> IF requests[1].inline[1].mimeType[1] = "video"
                                   THEN "video" ELSE "image" ]

\* a generation with an uploaded video has delivered its four posts
C5_Witness ==
    /\ requests # <<>> /\ requests[1].inline # Null
    /\ requests[1].inline[1].mimeType = Mime("video", "mp4")
    /\ TextCallSucceeded
    /\ gens = <<>> /\ posts # Null
    /\ posts[1][4].media.type = "video"

\* C6: without uploaded media, once one of the four image calls has rejected
\* or has returned zero images, no post list, full or partial, is returned,
\* in whatever order the calls complete; the generate call fails with an
\* error as soon as one call has rejected or all four have settled.
C6_ImageFailureIsTotal ==
    AnImageCallFailed
      => /\ posts = Null
         /\ ReturnedPosts = Null
         /\ ((\E i \in 2..5 : requests[i].outcome = "rejected")
               \/ (\A i \in 2..5 : requests[i].outcome # "pending"))
              => IF gens = <<>>
                 THEN error # Null /\ error[1] # <<>> /\ ~isLoading
                 ELSE /\ gens[1].phase = "response"
                      /\ gens[1].resp.status = 500
                      /\ gens[1].resp.error # <<>>

\* three image calls returned an image, the first one returned none, and the
\* generation has failed
C6_Witness ==
    /\ Len(requests) = 5
    /\ requests[2].outcome = "empty"
    /\ \A i \in 3..5 : requests[i].outcome = "ok"
    /\ gens = <<>> /\ ~isLoading
    /\ posts = Null
    /\ error = Some(WrapMsg(<<"Image generation failed to return an image.">>))

\* the generation cycle in flight ends in this step
CycleEnds == gens # <<>> /\ gens' = <<>>

\* The cycle that ends in this step is a failed one: the text call rejected,
\* its response was not JSON or lacked the instagram object, an image call
\* failed, or the proxy did not answer 200.
CycleFailed ==
    \/ gens[1].mode = "direct"
          /\ (\/ requests'[1].outcome \in {"rejected", "malformed"}
              \/ (requests'[1].outcome = "json" /\ requests'[1].result[1].instagram = Null)
              \/ \E i \in 2..Len(requests') : requests'[i].outcome \in {"rejected", "empty"})
    \/ gens[1].mode = "proxy" /\ gens[1].resp.status # 200

\* C10: when a generation cycle fails, the state displayed after it has
\* posts = null (the result set of an earlier success is gone), error set to
\* a non-empty message, and isLoading = false.
C10_FailureClearsResult ==
    [][ (CycleEnds /\ CycleFailed)
          => /\ posts' = Null
             /\ error' # Null /\ error'[1] # <<>>
             /\ isLoading' = FALSE ]_vars

\* a cycle has failed on a response that was not JSON
C10_Witness ==
    /\ gens = <<>> /\ ~isLoading
    /\ requests # <<>> /\ requests[1].outcome = "malformed"
    /\ posts = Null
    /\ error = Some(WrapMsg(<<"Unexpected token in JSON">>))

-----------------------------------------------------------------------------
(* Properties of the proxy handler.  An exchange is an entry of gens in    *)
(* proxied mode; the handler follows one exchange at a time, and requests  *)
(* is the log of the provider calls it made for it.                        *)

\* the exchanges the handler has begun to serve
Served == { g \in 1..Len(gens) : gens[g].mode = "proxy" /\ gens[g].phase # "fetch" }

\* C11: an OPTIONS request is answered with status 200 and the permissive
\* CORS headers, without the body being read and without a provider call;
\* a request whose method is neither POST nor OPTIONS is answered with status
\* 405 and an {error} body, without a provider call.
C11_MethodDispatch ==
    \A g \in Served :
        /\ gens[g].method = "OPTIONS"
              => /\ gens[g].phase = "response"
                 /\ gens[g].resp.status = 200
                 /\ gens[g].headers # Null
                 /\ gens[g].headers[1].allowOrigin = "*"
                 /\ gens[g].headers[1].allowMethods = "GET,OPTIONS,PATCH,DELETE,POST,PUT"
                 /\ ~gens[g].bodyRead
                 /\ requests = <<>>
        /\ gens[g].method \notin {"POST", "OPTIONS"}
              => /\ gens[g].phase = "response"
                 /\ gens[g].resp.status = 405
                 /\ gens[g].resp.posts = Null
                 /\ gens[g].resp.error # <<>>
                 /\ requests = <<>>

\* a PUT that carried an idea and media has been answered 405
C11_Witness ==
    \E g \in Served :
        /\ gens[g].method = "PUT"
        /\ gens[g].body # Null
        /\ gens[g].body[1].idea = StringValue(<<"pizza">>)
        /\ gens[g].resp.status = 405

\* the POST exchanges the handler has answered
AnsweredPosts ==
    { g \in Served : gens[g].method = "POST" /\ gens[g].phase = "response" }

\* C12: a POST is answered once: the response, once written, is not written
\* again, and it is either status 200 with an array of exactly four post
\* objects and no error, or status 400 or 500 with an {error: string} body
\* and no posts.
C12_OneWellFormedResponse ==
    /\ [](\A g \in AnsweredPosts :
            \/ /\ gens[g].resp.status = 200
               /\ gens[g].resp.posts # Null
               /\ Len(gens[g].resp.posts[1]) = 4
               /\ \A i \in 1..4 : gens[g].resp.posts[1][i].platform = PLATFORMS[i]
               /\ gens[g].resp.error = <<>>
            \/ /\ gens[g].resp.status \in {400, 500}
               /\ gens[g].resp.posts = Null
               /\ gens[g].resp.error # <<>>)
    /\ [][ \A g \in AnsweredPosts :
              g \in 1..Len(gens') => (gens'[g] = gens[g] \/ gens'[g].phase = "fetch") ]_vars

\* a POST with a video has been answered 200 with four posts
C12_Witness ==
    \E g \in AnsweredPosts :
        /\ gens[g].client = "external"
        /\ gens[g].media # Null
        /\ gens[g].resp.status = 200
        /\ Len(gens[g].resp.posts[1]) = 4

\* the request of exchange g is a POST whose body carries an idea text
ValidPost(g) ==
    /\ gens[g].method = "POST"
    /\ gens[g].body # Null
    /\ gens[g].body[1].idea.type = "string"
    /\ Trim(gens[g].body[1].idea.value) # <<>>

ServerKeyMsg == <<"API key not configured on server">>

\* C13: without an API key generation fails with a configuration error and
\* no provider call.  The handler answers a POST that carries an idea with
\* status 500 and the "not configured" error, and no provider call is made
\* for that exchange, at that step or later; generateSocialPosts entered
\* without a key and without a client fails in getAIClient, with the
\* configuration message, before any call is issued.
C13_NoKeyNoCall ==
    /\ [][ \A g \in 1..Len(gens) :
              (handlerReceives(g, FALSE) /\ ValidPost(g))
                => /\ gens'[g].phase = "response"
                   /\ gens'[g].resp = [status |-> 500, posts |-> Null, error |-> ServerKeyMsg]
                   /\ requests' = <<>> ]_vars
    /\ [](\A g \in Served : gens[g].resp.error = ServerKeyMsg => requests = <<>>)
    /\ [][ (GenerateDirect(FALSE) /\ ~ai)
              => /\ requests' = <<>>
                 /\ gens' = gens
                 /\ ai' = FALSE
                 /\ posts' = Null
                 /\ isLoading' = FALSE
                 /\ error' = Some(<<"Failed to generate content: ">> \o ConfigErrorMsg) ]_vars

\* generateSocialPosts has failed on the missing key without a call, and the
\* handler has then answered a POST with the configuration error
C13_Witness ==
    /\ error = Some(WrapMsg(ConfigErrorMsg))
    /\ ~ai /\ ~isLoading
    /\ requests = <<>>
    /\ \E g \in Served : ValidPost(g) /\ gens[g].resp.status = 500
                            /\ gens[g].resp.error = ServerKeyMsg

\* what identifies a provider call in the log: everything but its outcome
CallsIssued(log) == [i \in 1..Len(log) |-> [log[i] EXCEPT !.outcome = "pending", !.result = Null]]

\* a call of the log has failed: it rejected, or its text did not parse
ACallFailed == \E i \in 1..Len(requests) : requests[i].outcome \in {"rejected", "malformed"}

\* C14: a cycle issues the text call once and never again; it issues four
\* image calls, one per platform in the order of PLATFORMS with that
\* platform's aspect ratio and numberOfImages 1, exactly when no media was
\* sent along and the text call returned JSON carrying the instagram object
\* (the image prompt is read from it); otherwise it issues none.  Within a
\* cycle a call once issued stays as issued and is not issued again, and
\* after a failed call no further call is issued.
C14_CallCounts ==
    /\ [](/\ Len(requests) \in {0, 1, 5}
          /\ requests # <<>> => requests[1].api = "generateContent"
          /\ \A i \in 2..Len(requests) :
                /\ requests[i].api = "generateImages"
                /\ requests[i].numberOfImages = 1
                /\ requests[i].prompt = requests[2].prompt
                /\ \E mode \in {"direct", "proxy"} :
                      requests[i].aspectRatio = PLATFORM_ASPECT_RATIOS(mode)[i - 1]
          /\ Len(requests) = 5 <=> (TextCallSucceeded /\ requests[1].inline = Null))
    /\ [][ Len(gens') <= Len(gens)
             => /\ Len(requests') >= Len(requests)
                /\ SubSeq(CallsIssued(requests'), 1, Len(requests)) = CallsIssued(requests)
                /\ ACallFailed => Len(requests') = Len(requests) ]_vars

\* a cycle without media has ended on a rejected image call, after the one
\* text call and the four image calls
C14_Witness ==
    /\ gens = <<>> /\ error # Null
    /\ Len(requests) = 5
    /\ requests[1].outcome = "json"
    /\ \E i \in 2..5 : requests[i].outcome = "rejected"

\* the decoded text response has every field the responseSchema requires
Conforms(textData) ==
    /\ textData.linkedin # Undefined
    /\ textData.facebook # Undefined
    /\ textData.twitter # Undefined
    /\ textData.instagram # Null
    /\ textData.instagram[1].caption # Undefined
    /\ textData.instagram[1].hashtags # Undefined
    /\ textData.instagram[1].image_prompt # Undefined

\* the text call returned text that is not JSON, or JSON that lacks a
\* required field
TextNotConforming ==
    /\ requests # <<>>
    /\ \/ requests[1].outcome = "malformed"
       \/ requests[1].outcome = "json" /\ ~Conforms(requests[1].result[1])

\* C15: when the text response is malformed JSON or lacks a required field
\* of the schema, generation returns no posts, with or without media.
C15_NonConformingReturnsNoPosts == TextNotConforming => ReturnedPosts = Null

-----------------------------------------------------------------------------
(* Properties of compressImage.  `encoded` holds, right after img.onload,   *)
(* the decoded size, the canvas size and the quality of the last encoding.  *)

\* C16: the quality of the encoding compressImage resolves with is never
\* below the floor 0.5, whatever the image and the sizes of its encodings.
C16_QualityAtLeastFloor == encoded # Null => ~Greater(QualityFloor, encoded[1].quality)

\* C17: the loop of compressImage ends after at most five reductions of the
\* quality, earlier only when the encoding is within the target, and
\* compressImage resolves with the encoding it then has, which is stored as
\* uploadedMedia without an alert, also when it is still above the target.
C17_LoopBoundedResultAccepted ==
    encoded # Null =>
        /\ encoded[1].steps \in 0..5
        /\ encoded[1].steps <= encoded[1].over
        /\ encoded[1].steps < 5 => encoded[1].length <= TargetLength
        /\ alertMsg = Null
        /\ uploadedMedia # Null
        /\ uploadedMedia[1].mimeType = Mime("image", "jpeg")
        /\ uploadedMedia[1].base64[1] = "jpeg-of"

\* five reductions were made and the encoding stored is still above the target
C17_Witness ==
    /\ encoded # Null /\ uploadedMedia # Null
    /\ encoded[1].steps = 5
    /\ encoded[1].length > TargetLength

\* the image was decoded larger than MAX_DIMENSION in width or height
Oversized == encoded # Null /\ (encoded[1].img.width > MAX_DIMENSION
                                \/ encoded[1].img.height > MAX_DIMENSION)

\* C18: for an image wider or taller than 2048 the canvas has 2048 on the
\* image's longer side (on both sides for a square image) and on the other
\* side the integer part of shorter * 2048 / longer; an image with both sides
\* at most 2048 keeps its width and height.
C18_ResizeKeepsAspect ==
    encoded # Null =>
        LET w == encoded[1].img.width
            h == encoded[1].img.height
            cw == encoded[1].canvas.width
            ch == encoded[1].canvas.height
        IN  IF Oversized
            THEN /\ IF w >= h THEN cw = MAX_DIMENSION ELSE ch = MAX_DIMENSION
                 /\ cw <= MAX_DIMENSION /\ ch <= MAX_DIMENSION
                 /\ IF w >= h
                    THEN ch * w <= h * MAX_DIMENSION /\ h * MAX_DIMENSION < (ch + 1) * w
                    ELSE cw * h <= w * MAX_DIMENSION /\ w * MAX_DIMENSION < (cw + 1) * h
            ELSE cw = w /\ ch = h

\* a square image larger than the maximum was resized to 2048 x 2048
C18_Witness ==
    /\ Oversized
    /\ encoded[1].img.width = encoded[1].img.height
    /\ encoded[1].canvas = [width |-> MAX_DIMENSION, height |-> MAX_DIMENSION]

-----------------------------------------------------------------------------
(* Properties of the returned posts *)

\* C19: in every list of posts that generation returns, the Instagram post
\* carries between one and five hashtags and the LinkedIn, Facebook and
\* Twitter posts have no hashtags field.
C19_InstagramHashtags ==
    ReturnedPosts # Null =>
        LET finalPosts == ReturnedPosts[1] IN
        /\ finalPosts[4].hashtags # Null
        /\ finalPosts[4].hashtags[1] # Undefined
        /\ Len(finalPosts[4].hashtags[1]) \in 1..5
        /\ \A i \in 1..3 : finalPosts[i].hashtags = Null

-----------------------------------------------------------------------------
(* The two generation branches compared *)

OtherMode(mode) == IF mode = "direct" THEN "proxy" ELSE "direct"

\* the provider calls the branch `mode` issues for this idea and media, the
\* image calls included when withImages
CallsOf(mode, ideaText, media, imagePrompt, withImages) ==
    <<textRequest(mode, ideaText, media)>>
    \o (IF withImages THEN imagePromises(mode, imagePrompt) ELSE <<>>)

\* C20: the provider calls a generation issues (prompt, inline media and
\* per-platform aspect ratios) are the calls the other branch, direct or
\* proxied, issues for the same idea and media.
C20_SameCallsInBothModes ==
    \A g \in 1..Len(gens) :
        requests # <<>> =>
            CallsIssued(requests)
              = CallsOf(OtherMode(gens[g].mode), gens[g].idea, gens[g].media,
                        IF Len(requests) > 1 THEN requests[2].prompt ELSE <<>>,
                        Len(requests) > 1)

\* the same for the image calls alone
C20_SameImageCalls ==
    \A g \in 1..Len(gens) :
        Len(requests) > 1 =>
            SubSeq(CallsIssued(requests), 2, Len(requests))
              = imagePromises(OtherMode(gens[g].mode), requests[2].prompt)

-----------------------------------------------------------------------------
(* The input surfaces compared *)

\* C21: whichever surface (file picker, paste, drag-and-drop) hands a file
\* to processFile, the step is the processFile step of that file: the same
\* alert or the same read started, as the file and the mounted InputSection
\* alone decide, and uploadedMedia untouched until the read completes; a read
\* keeps nothing of the surface it came from.
C21_SurfacesAgree ==
    /\ [][ \A f \in Files :
              processed' = Some(f)
                => /\ processFile(Some(f))
                   /\ uploadedMedia' = uploadedMedia
                   /\ f.size <= MaxFileSize /\ f.type \in acceptedTypes
                        <=> (alertMsg' = Null /\ reads' = Append(reads, NewRead(f)))
                   /\ (f.size > MaxFileSize \/ f.type \notin acceptedTypes)
                        <=> (alertMsg' # Null /\ reads' = reads) ]_vars
    /\ [](\A i \in 1..Len(reads) : DOMAIN reads[i] = {"path", "stage", "type", "data", "overtaken"})

\* a pasted image file above the size ceiling has been rejected with the
\* alert the picker gives
C21_Witness ==
    /\ pasted # Null
    /\ processed # Null /\ processed[1].size > MaxFileSize
    /\ alertMsg = Some(TooLargeMsg)

-----------------------------------------------------------------------------
(* Properties of voice capture and of the idea text *)

\* C22: when a result arrives the new idea is the transcript if the idea was
\* empty, and otherwise the trimmed idea, one space and the transcript, the
\* whole trimmed; the trimmed previous idea is the beginning of the new one.
C22_TranscriptAppended ==
    [][ \A s \in 1..Len(sessions), transcript \in Transcripts :
          onresult(s, transcript)
            => /\ idea' = IF idea = <<>> THEN transcript
                          ELSE Trim(Trim(idea) \o <<" ">> \o transcript)
               /\ Len(idea') >= Len(Trim(idea))
               /\ SubSeq(idea', 1, Len(Trim(idea))) = Trim(idea)
               /\ Contains(idea', Trim(transcript)) ]_vars

\* a second utterance was appended to a dictated idea that ended in a blank
C22_Witness ==
    /\ idea = <<"special", " ", "special">>
    /\ \E s \in 1..Len(sessions) : sessions[s].phase = "closing"

-----------------------------------------------------------------------------
(* Generations in flight *)

\* C23: while a generation request is in flight the UI can start a second
\* one (the Generate button can be clicked).
C23_SecondRequestCanStart == gens # <<>> => ENABLED Generate

\* C23, amended: a generation starts only while none is in flight, so at most
\* one is in flight, isLoading is true exactly while it is, and posts and
\* error are written only by the generation that ends.
C23_OneGenerationAtATime ==
    /\ [](Len(gens) <= 1 /\ (isLoading <=> gens # <<>>))
    /\ [][ Len(gens') > Len(gens) => (gens = <<>> /\ ~isLoading) ]_vars
    /\ [][ (gens # <<>> /\ (posts' # posts \/ error' # error)) => gens' = <<>> ]_vars

\* one generation is in flight, waiting for its image calls, with an idea
\* in the text area that would otherwise enable the button
C23_Witness ==
    /\ Len(gens) = 1 /\ isLoading
    /\ gens[1].phase = "images"
    /\ Trim(idea) # <<>>

-----------------------------------------------------------------------------
(* The error shown after a failed provider call *)

\* the messages the provider calls of the model fail with
ProviderMessages ==
    { o.message : o \in { x \in TextOutcomes : x.kind # "json" } } \cup {ImageRejectionMsg}

-----------------------------------------------------------------------------
(* The speech error and its timer *)

SpeechErrorBecomesNull == (speechError # Null) ~> (speechError = Null)

-----------------------------------------------------------------------------
(* The inputs while a generation is in flight *)

\* C26: while a generation is in flight (isLoading true before and after the
\* step) no step changes idea or uploadedMedia.
C26_InputsFrozenWhileLoading ==
    [][ (isLoading /\ isLoading') => (idea' = idea /\ uploadedMedia' = uploadedMedia) ]_vars

\* the same for the idea alone
IdeaFrozenWhileLoading == [][ (isLoading /\ isLoading') => idea' = idea ]_vars

-----------------------------------------------------------------------------
(* Reads in flight together *)

\* read i completes and delivers media
Delivers(i) ==
    /\ i \in 1..Len(reads)
    /\ reads' = Completed(i, TRUE)
    /\ uploadedMedia' # Null

\* C27: when two accepted files were submitted one after the other, the
\* media of the one submitted last is what stays: a read that a later
\* submitted read has overtaken does not replace the media shown when it
\* completes in its turn.
C27_LastSubmittedWins ==
    [][ \A i \in 1..Len(reads) :
          (reads[i].overtaken /\ uploadedMedia # Null /\ Delivers(i))
            => uploadedMedia' = uploadedMedia ]_vars

-----------------------------------------------------------------------------
(* The recording flag and the session reference *)

\* the sessions that have been started and have not ended
LiveSessions ==
    { s \in 1..Len(sessions) : sessions[s].phase \in {"starting", "listening", "closing"} }

\* C28: isRecording is true only while recognitionRef holds a session that
\* has not ended, and the onend of one session does not change recognitionRef
\* or isRecording while a different session is still active.
C28_RecordingHasItsSession ==
    /\ [](isRecording => (recognitionRef # Null /\ recognitionRef[1] \in LiveSessions))
    /\ [][ \A s \in 1..Len(sessions) :
              (onend(s) /\ ActiveSessions \ {s} # {})
                => (recognitionRef' = recognitionRef /\ isRecording' = isRecording) ]_vars

-----------------------------------------------------------------------------
(* The display state of App *)

\* C29: posts and error are never both set; while isLoading is true both are
\* null; and every generation that was started sets isLoading back to false.
C29_DisplayStateConsistent ==
    /\ [](~(posts # Null /\ error # Null))
    /\ [](isLoading => (posts = Null /\ error = Null))
    /\ isLoading ~> ~isLoading

\* a cycle without media has ended with its posts shown and no error
C29_Witness ==
    /\ ~isLoading /\ gens = <<>>
    /\ posts # Null /\ error = Null
    /\ ImageCallsSucceeded

-----------------------------------------------------------------------------
(* Triggers with a blank idea *)

\* a POST with a body whose idea is missing, not a string, empty or whitespace
BlankPost(g) ==
    /\ g \in 1..Len(gens)
    /\ gens[g].method = "POST" /\ gens[g].body # Null
    /\ (gens[g].body[1].idea.type # "string" \/ Trim(gens[g].body[1].idea.value) = <<>>)

\* C30: handleGenerate with an empty or whitespace-only idea sets the error
\* message and changes nothing else: no exchange is opened and no provider
\* request is issued.  The handler answers a POST with such an idea with status
\* 400 whether or not a key is configured, and no provider request is issued.
C30_BlankIdeaNoRequest ==
    /\ [][ GenerateBlank
             => /\ error' = Some(BlankIdeaMsg)
                /\ UNCHANGED <<uploadedMedia, posts, isLoading, ai, gens, requests>> ]_vars
    /\ [][ \A g \in 1..Len(gens), k \in BOOLEAN :
             (BlankPost(g) /\ handlerReceives(g, k))
                => /\ gens'[g].phase = "response"
                   /\ gens'[g].resp.status = 400
                   /\ gens'[g].resp.error = <<"Idea is required">>
                   /\ requests' = requests ]_vars
    /\ [](\A g \in 1..Len(gens) :
             (BlankPost(g) /\ gens[g].phase # "fetch")
                => (gens[g].phase = "response" /\ gens[g].resp.status = 400))

\* the blank-idea message is shown over the posts of an earlier cycle, and the
\* handler has answered a whitespace-only POST with 400
C30_Witness ==
    /\ error = Some(BlankIdeaMsg)
    /\ posts # Null /\ ~isLoading
    /\ \E g \in 1..Len(gens) :
          /\ BlankPost(g) /\ gens[g].body[1].idea = StringValue(<<" ">>)
          /\ gens[g].resp.status = 400

=============================================================================
